---- MODULE Spec2Model ----
(***************************************************************************)
(* Model of client/src/components/it-equipment/it-equipment-form.tsx:      *)
(* the ITEquipmentForm component, its zod schema, the react-hook-form      *)
(* state it configures (mode "onChange", zodResolver), the handleSubmit    *)
(* sanitiser and the two buttons of the rendered form.                     *)
(*                                                                         *)
(* A string is a sequence of characters; "" is <<>>.  The alphabet holds   *)
(* one whitespace character and one non-whitespace character, which is     *)
(* all that String.prototype.trim and z.string().min(n) can tell apart.    *)
(***************************************************************************)
EXTENDS Naturals, Sequences, FiniteSets

\* Longest string a field holds in the model.
MaxLen == 2
\* Number of field edits (change events) in one behaviour.
MaxEdits == 3

Space == " "
Letter == "a"
Alphabet == {Space, Letter}
EmptyStr == <<>>

Strings == UNION {[1..n -> Alphabet] : n \in 0..MaxLen}

IsWhitespace(c) == c = Space

RECURSIVE TrimStart(_)
TrimStart(s) ==
    IF Len(s) > 0 /\ IsWhitespace(Head(s)) THEN TrimStart(Tail(s)) ELSE s

RECURSIVE TrimEnd(_)
TrimEnd(s) ==
    IF Len(s) > 0 /\ IsWhitespace(s[Len(s)])
    THEN TrimEnd(SubSeq(s, 1, Len(s) - 1))
    ELSE s

\* String.prototype.trim
Trim(s) == TrimEnd(TrimStart(s))

HasWhitespace(s) == \E i \in 1..Len(s) : IsWhitespace(s[i])

Fields == {"name", "category", "totalQuantity", "model", "location", "dateAcquired"}
TextFields == {"name", "category", "totalQuantity", "model", "location"}

----------------------------------------------------------------------------
\* itEquipmentFormSchema: z.string().min(n, message) per field.

NoError == "none"

MinLengthNameOne(f) == 1

MinLength(f) == IF f = "name" THEN 2 ELSE 1

Message(f) ==
    CASE f = "name" -> "Name must be at least 2 characters"
      [] f = "category" -> "Category is required"
      [] f = "totalQuantity" -> "Total quantity is required"
      [] f = "model" -> "Model is required"
      [] f = "location" -> "Location is required"
      [] f = "dateAcquired" -> "Date acquired is required"

\* zodResolver(itEquipmentFormSchema) applied to the draft: the error of each
\* field, NoError where the field passes.
itEquipmentFormSchema(v) ==
    [f \in Fields |-> IF Len(v[f]) >= MinLength(f) THEN NoError ELSE Message(f)]

IsEmptyObject(errs) == \A f \in Fields : errs[f] = NoError

----------------------------------------------------------------------------
\* Props.  defaultValues is Partial<ITEquipmentFormValues>: a function on the
\* supplied fields; an omitted (undefined) field is outside its domain.

AllEmpty == [f \in Fields |-> EmptyStr]

\* The parameter default of lines 32-39, used when the prop is not passed.
DefaultParam(prop) == IF prop.supplied THEN prop.fields ELSE AllEmpty

\* x || "" on an optional string: undefined and "" both give "".
OrEmpty(d, f) == IF f \in DOMAIN d /\ d[f] # EmptyStr THEN d[f] ELSE EmptyStr

FormDefaultsDropName(prop) ==
    [f \in Fields |-> IF f = "name" THEN EmptyStr ELSE OrEmpty(DefaultParam(prop), f)]

\* useForm({defaultValues: {name: defaultValues?.name || "", ...}})
FormDefaults(prop) == [f \in Fields |-> OrEmpty(DefaultParam(prop), f)]

----------------------------------------------------------------------------
\* handleSubmit: the sanitised draft handed to onSubmit.

TrimOrEmpty(v, f) ==
    IF f \in DOMAIN v
    THEN (LET t == Trim(v[f]) IN IF t # EmptyStr THEN t ELSE EmptyStr)
    ELSE EmptyStr

SanitizeNoTrim(v) == [f \in Fields |-> OrEmpty(v, f)]

Sanitize(v) ==
    [f \in Fields |-> IF f \in TextFields THEN TrimOrEmpty(v, f) ELSE OrEmpty(v, f)]

----------------------------------------------------------------------------
\* The two buttons as rendered from isLoading and form.formState.isValid.

RenderNoLoadingGuard(loading, valid) ==
    [resetDisabled  |-> loading,
     submitDisabled |-> ~valid,
     submitLabel    |-> IF loading THEN "Creating..." ELSE "Create Equipment"]

RenderInvertedValidity(loading, valid) ==
    [resetDisabled  |-> loading,
     submitDisabled |-> loading \/ valid,
     submitLabel    |-> IF loading THEN "Creating..." ELSE "Create Equipment"]

RenderResetAlwaysOn(loading, valid) ==
    [resetDisabled  |-> FALSE,
     submitDisabled |-> loading \/ ~valid,
     submitLabel    |-> IF loading THEN "Creating..." ELSE "Create Equipment"]

Render(loading, valid) ==
    [resetDisabled  |-> loading,
     submitDisabled |-> loading \/ ~valid,
     submitLabel    |-> IF loading THEN "Creating..." ELSE "Create Equipment"]

----------------------------------------------------------------------------
VARIABLES
    defaultValues,  \* the defaultValues prop the component was mounted with
    isLoading,      \* the isLoading prop, driven by the parent
    values,         \* the form's field values (the draft)
    errors,         \* the resolver's result for the draft
    isValid,        \* form.formState.isValid
    ui,             \* the rendered buttons
    calls,          \* the arguments of the onSubmit invocations the last step made
    edits,          \* number of change events so far
    lastOp          \* the operation that produced this state

vars == <<defaultValues, isLoading, values, errors, isValid, ui, calls, edits, lastOp>>

\* A keystroke in a text input: the change event carries the old value with
\* a character typed at its end or with its last character deleted.
Keystrokes(s) ==
    {Append(s, c) : c \in {c \in Alphabet : Len(s) < MaxLen}}
    \cup {SubSeq(s, 1, Len(s) - 1) : n \in {n \in {Len(s)} : n > 0}}

\* <input type="number"> and <input type="date"> sanitise their value: a
\* change event carries the empty string or a well-formed number / date,
\* never a padded string.
SanitizedInputs == {s \in Strings : ~HasWhitespace(s)}

\* What a change event on field f can carry when the field holds s.
InputsOf(f, s) ==
    IF f \in {"totalQuantity", "dateAcquired"}
    THEN SanitizedInputs \ {s}
    ELSE Keystrokes(s)

\* The defaultValues props the model mounts the form with.
CleanSample == [f \in Fields |-> IF f = "name" THEN <<Letter, Letter>> ELSE <<Letter>>]
PaddedSample == [f \in Fields |-> <<Space, Letter>>]
Samples == {CleanSample, PaddedSample}
SuppliedSets == {{}, {"name"}, Fields \ {"name"}, Fields}

Restrict(r, S) == [f \in S |-> r[f]]

DefaultValuesProps ==
    {[supplied |-> FALSE, fields |-> Restrict(AllEmpty, {})]}
    \cup {[supplied |-> TRUE, fields |-> AllEmpty]}
    \cup {[supplied |-> TRUE, fields |-> Restrict(r, S)] : r \in Samples, S \in SuppliedSets}

\* The form state after a (re)validation of draft v under loading flag l.
Validated(v, l) ==
    /\ errors' = itEquipmentFormSchema(v)
    /\ isValid' = IsEmptyObject(itEquipmentFormSchema(v))
    /\ ui' = Render(l, IsEmptyObject(itEquipmentFormSchema(v)))

Init ==
    /\ defaultValues \in DefaultValuesProps
    /\ isLoading \in BOOLEAN
    /\ values = FormDefaults(defaultValues)
    /\ errors = itEquipmentFormSchema(values)
    /\ isValid = IsEmptyObject(errors)
    /\ ui = Render(isLoading, isValid)
    /\ calls = <<>>
    /\ edits = 0
    /\ lastOp = "mount"

\* A change event on field f carrying s: field.onChange, then the resolver
\* runs on the whole draft (mode "onChange").
Edit(f, s) ==
    /\ edits < MaxEdits
    /\ s # values[f]
    /\ values' = [values EXCEPT ![f] = s]
    /\ Validated(values', isLoading)
    /\ edits' = edits + 1
    /\ lastOp' = "edit"
    /\ calls' = <<>>
    /\ UNCHANGED <<defaultValues, isLoading>>

\* The Reset button: form.reset() puts back the defaults given to useForm.
Reset ==
    /\ ~ui.resetDisabled
    /\ values' = FormDefaults(defaultValues)
    /\ Validated(values', isLoading)
    /\ lastOp' = "reset"
    /\ calls' = <<>>
    /\ UNCHANGED <<defaultValues, isLoading, edits>>

SubmitThenReset ==
    /\ ~ui.submitDisabled
    /\ IsEmptyObject(itEquipmentFormSchema(values))
    /\ calls' = <<Sanitize(values)>>
    /\ values' = FormDefaults(defaultValues)
    /\ Validated(values', isLoading)
    /\ lastOp' = "submit"
    /\ UNCHANGED <<defaultValues, isLoading, edits>>

\* The submit button (or implicit submission, which a disabled default
\* button blocks): form.handleSubmit re-validates and, when the draft
\* passes, calls handleSubmit, which calls onSubmit with the sanitised draft.
Submit ==
    /\ ~ui.submitDisabled
    /\ calls' = IF IsEmptyObject(itEquipmentFormSchema(values))
                THEN <<Sanitize(values)>>
                ELSE <<>>
    /\ Validated(values, isLoading)
    /\ lastOp' = "submit"
    /\ UNCHANGED <<defaultValues, isLoading, values, edits>>

\* The parent re-renders the component with the other isLoading.
SetLoading ==
    /\ isLoading' = ~isLoading
    /\ ui' = Render(isLoading', isValid)
    /\ lastOp' = "loading"
    /\ calls' = <<>>
    /\ UNCHANGED <<defaultValues, values, errors, isValid, edits>>

Next ==
    \/ \E f \in Fields : \E s \in InputsOf(f, values[f]) : Edit(f, s)
    \/ Reset
    \/ Submit
    \/ SetLoading

Spec == Init /\ [][Next]_vars

----------------------------------------------------------------------------
\* The constraints of the data model, as the specification words them:
\* name has length >= 2 after trim; category, totalQuantity, model and
\* location are non-empty after trim; dateAcquired is non-empty.

RequiredFields == {"category", "totalQuantity", "model", "location"}

SatisfiesConstraints(v) ==
    /\ Len(Trim(v.name)) >= 2
    /\ \A f \in RequiredFields : Len(Trim(v[f])) >= 1
    /\ Len(v.dateAcquired) >= 1

\* A draft record whose fields meet the stated lengths as they stand.
IsValidatedDraft(d) ==
    /\ Len(d.name) >= 2
    /\ \A f \in RequiredFields : Len(d[f]) >= 1
    /\ Len(d.dateAcquired) >= 1

\* No text field carries leading or trailing whitespace.
AlreadyTrimmed(v) == \A f \in TextFields : Trim(v[f]) = v[f]

SubmitEnabled == ~ui.submitDisabled

\* C1: whenever isLoading is false, the submit control is enabled if and
\* only if the draft satisfies all six constraints of the data model
\* (lengths taken after trim).
C1_SubmitEnabledIffConstraints ==
    ~isLoading => (SubmitEnabled <=> SatisfiesConstraints(values))

\* C2: every draft passed to onSubmit has name of length >= 2, category,
\* totalQuantity, model and location non-empty, and dateAcquired non-empty.
C2_OnSubmitReceivesValidatedDraft ==
    \A i \in 1..Len(calls) : IsValidatedDraft(calls[i])

\* C3: whenever the draft fails validation (name shorter than 2 characters,
\* or another field empty) the validation reports the error of every
\* offending field, and no step taken from such a draft invokes onSubmit.
C3_NoSubmissionIfValidationFails ==
    /\ [](/\ Len(values.name) < 2
             => errors.name = "Name must be at least 2 characters"
          /\ Len(values.category) < 1 => errors.category = "Category is required"
          /\ Len(values.totalQuantity) < 1
             => errors.totalQuantity = "Total quantity is required"
          /\ Len(values.model) < 1 => errors.model = "Model is required"
          /\ Len(values.location) < 1 => errors.location = "Location is required"
          /\ Len(values.dateAcquired) < 1
             => errors.dateAcquired = "Date acquired is required"
          /\ ~IsValidatedDraft(values) => ~SubmitEnabled)
    /\ [][~IsValidatedDraft(values) => calls' = <<>>]_vars

\* A name of one character typed into an otherwise complete draft: the
\* error is reported and the submit control is inert.
C3_Witness ==
    /\ lastOp = "edit"
    /\ ~isLoading
    /\ values.name = <<Letter>>
    /\ \A f \in Fields \ {"name"} : Len(values[f]) >= 1
    /\ errors.name = "Name must be at least 2 characters"
    /\ ui.submitDisabled

\* C4: the draft passed to onSubmit holds each text field of the current
\* draft trimmed, and dateAcquired as it stands.
C4_SubmitPassesTrimmedDraft ==
    [][calls' # <<>> =>
         calls' = << [f \in Fields |->
                        IF f = "dateAcquired" THEN values[f] ELSE Trim(values[f])] >>]_vars

\* A submit of a draft with padded text fields and a padded date.
C4_Witness ==
    /\ lastOp = "submit"
    /\ Len(calls) = 1
    /\ \E f \in TextFields : calls[1][f] # values[f]
    /\ HasWhitespace(values.dateAcquired)
    /\ calls[1].dateAcquired = values.dateAcquired

\* C5: while isLoading is true both controls are disabled, whatever the
\* draft, and the submit label reads "Creating..."; while it is false the
\* label reads "Create Equipment".
C5_LoadingDisablesControls ==
    /\ isLoading => /\ ui.resetDisabled
                    /\ ui.submitDisabled
                    /\ ui.submitLabel = "Creating..."
    /\ ~isLoading => ui.submitLabel = "Create Equipment"

\* A valid draft while a submission is in flight.
C5_Witness ==
    /\ lastOp = "loading"
    /\ isLoading
    /\ IsValidatedDraft(values)
    /\ ui.submitDisabled

\* The draft the form was mounted with, as the specification words it:
\* the supplied value of each supplied field, the empty string otherwise.
MergedDefaults ==
    [f \in Fields |->
        IF defaultValues.supplied /\ f \in DOMAIN defaultValues.fields
        THEN defaultValues.fields[f]
        ELSE EmptyStr]

\* C6: after Reset all six fields hold the initial defaults, and submit is
\* disabled if those defaults do not satisfy all constraints of the data
\* model.
C6_ResetRestoresDefaults ==
    lastOp = "reset" =>
        /\ values = MergedDefaults
        /\ ~SatisfiesConstraints(MergedDefaults) => ~SubmitEnabled

\* The part of C6 that holds of the code: Reset restores the defaults, and
\* submit is disabled if the defaults fail the schema.
ResetRestoresDefaults ==
    lastOp = "reset" =>
        /\ values = MergedDefaults
        /\ ~IsValidatedDraft(MergedDefaults) => ~SubmitEnabled

\* C7 as stated: for every valid draft without leading or trailing
\* whitespace, submit is enabled.
C7_ValidTrimmedDraftEnablesSubmit ==
    (SatisfiesConstraints(values) /\ AlreadyTrimmed(values)) => SubmitEnabled

\* C7 as amended: for every valid draft without leading or trailing
\* whitespace, while isLoading is false submit is enabled, and invoking it
\* calls onSubmit exactly once with the draft itself.
C7_ValidTrimmedDraftSubmitsItself ==
    /\ []((SatisfiesConstraints(values) /\ AlreadyTrimmed(values) /\ ~isLoading)
           => SubmitEnabled)
    /\ [][(SatisfiesConstraints(values) /\ AlreadyTrimmed(values) /\ lastOp' = "submit")
           => calls' = <<values>>]_vars

\* The example draft of the specification, submitted.
C7_Witness ==
    /\ lastOp = "submit"
    /\ values = CleanSample
    /\ calls = <<CleanSample>>

\* C8 as stated: once onSubmit is invoked the form no longer holds the
\* field values that were submitted.
C8_DraftDiscardedOnSubmit ==
    [][calls' # <<>> => values' # values]_vars

\* C8 as amended: invoking onSubmit leaves the draft in the form as it was.
C8_DraftKeptOnSubmit ==
    [][calls' # <<>> => values' = values]_vars

\* A submit of an edited draft that the form still holds.
C8_Witness ==
    /\ lastOp = "submit"
    /\ Len(calls) = 1
    /\ edits > 0
    /\ values # FormDefaults(defaultValues)

\* C9: at mount each supplied field starts at the supplied value and each
\* omitted field at the empty string.
C9_MountMergesDefaults ==
    lastOp = "mount" => values = MergedDefaults

\* A mount with only the name supplied.
C9_Witness ==
    /\ lastOp = "mount"
    /\ defaultValues.supplied
    /\ DOMAIN defaultValues.fields = {"name"}
    /\ values.name = CleanSample.name
    /\ \A f \in Fields \ {"name"} : values[f] = EmptyStr

\* C10: onSubmit is never invoked while isLoading is true.
C10_NoSubmitWhileLoading ==
    [][calls' # <<>> => ~isLoading /\ ~isLoading']_vars

\* onSubmit invoked while no submission is in flight.
C10_Witness ==
    /\ lastOp = "submit"
    /\ Len(calls) = 1
    /\ ~isLoading

====
